---------------------------- MODULE Spec2Model ----------------------------
(***************************************************************************)
(* A model of the tile-grid presentation layer of Tiled:                   *)
(*   src/src/tiled/tilesetmodel.cpp  (TilesetModel)                        *)
(*   src/src/tiled/tilesetview.cpp   (TilesetView: mergeSpan, splitSpan)   *)
(*                                                                         *)
(* The tileset itself (Tileset, Tile, the undo commands AddTiles,          *)
(* RemoveTiles, ChangeTileImageRect, RelocateTiles) is a collaborator      *)
(* whose code is outside these two files; the definitions that stand for   *)
(* it are marked "collaborator" below.                                     *)
(***************************************************************************)
EXTENDS Integers, Sequences, FiniteSets, TLC

(***************************************************************************)
(* Bounds of the model.                                                    *)
(***************************************************************************)
\* columns and rows of the atlas grid
GridCols == 3
GridRows == 2
\* largest number of tiles of a collection tileset
MaxTiles == 10
\* largest column-count override handed to setColumnCountOverride
MaxOverride == 3
\* number of handler calls explored on an atlas tileset
MaxOps == 3
\* number of model calls (table, drag-and-drop) explored
MaxModelOps == 2
\* columns and rows of the atlas of the mergeSpan(2,3,3,6) example
ExampleCols == 7
ExampleRows == 4
\* columns and rows of the atlas on which single splits are explored
SplitCols == 3
SplitRows == 3
\* number of WangId positions explored (WangId::NumIndexes positions exist)
NumIndexes == 2
\* largest Wang colour handed to setWangColor and used in a WangId
MaxWangColor == 1

VARIABLES
    atlas,                 \* tileset()->isAtlas()
    nativeColumns,         \* tileset()->columnCount()
    nativeRows,            \* tileset()->rowCount()
    tileWidth,             \* tileset()->tileWidth()
    tileHeight,            \* tileset()->tileHeight()
    margin,                \* tileset()->margin()
    tileSpacing,           \* tileset()->tileSpacing()
    tiles,                 \* tileset()->tiles(): the tiles in list order
    mTileIds,              \* TilesetModel::mTileIds
    mColumnCountOverride,  \* TilesetModel::mColumnCountOverride
    mRelocating,           \* TilesetModel::mRelocating
    pushed,                \* what the last handler call did to the undo stack
    lastOp,                \* the last handler call: its name, arguments, locals
    ops,                   \* number of handler calls so far
    mEditWangSet,          \* TilesetView::mEditWangSet
    mWangSet,              \* TilesetView::mWangSet is set (not null)
    mWangBehavior,         \* TilesetView::mWangBehavior
    mWangId,               \* TilesetView::mWangId
    mWangColorIndex,       \* TilesetView::mWangColorIndex
    mHoveredIndex,         \* TilesetView::mHoveredIndex
    mWangIdChanged,        \* TilesetView::mWangIdChanged
    wangIdOfTile,          \* mWangSet->wangIdOfTile(): tile id to WangId
    buttons,               \* the left mouse button is held down
    dragChanged,           \* a tile's WangId was changed since the last left press
    dragEditing,           \* terrain editing was on since the last left press
    hasModel,              \* TilesetView::tilesetModel() is not null
    mRelocateTiles,        \* TilesetView::mRelocateTiles
    dragDropMode,          \* QAbstractItemView::dragDropMode() of the view
    released               \* the last mouse release handled on an atlas

vars == <<atlas, nativeColumns, nativeRows, tileWidth, tileHeight, margin,
          tileSpacing, tiles, mTileIds, mColumnCountOverride, mRelocating,
          pushed, lastOp, ops, mEditWangSet, mWangSet, mWangBehavior, mWangId,
          mWangColorIndex, mHoveredIndex, mWangIdChanged, wangIdOfTile,
          buttons, dragChanged, dragEditing, hasModel, mRelocateTiles,
          dragDropMode, released>>

wangVars == <<mEditWangSet, mWangSet, mWangBehavior, mWangId, mWangColorIndex,
              mHoveredIndex, mWangIdChanged, wangIdOfTile, buttons,
              dragChanged, dragEditing>>

viewVars == <<hasModel, mRelocateTiles, dragDropMode, released>>

tilesetVars == <<atlas, nativeColumns, nativeRows, tileWidth, tileHeight,
                 margin, tileSpacing>>

(***************************************************************************)
(* Sequences.                                                              *)
(***************************************************************************)
Range(s) == {s[i] : i \in DOMAIN s}

Min(a, b) == IF a <= b THEN a ELSE b

\* the elements of s at the positions in keep, in list order
SubSeqAt(s, keep) ==
    LET tagged == [i \in DOMAIN s |-> <<i, s[i]>>]
        chosen == SelectSeq(tagged, LAMBDA p : p[1] \in keep)
    IN [j \in DOMAIN chosen |-> chosen[j][2]]

\* QList::indexOf, 0-based, -1 when absent
IndexOf(s, v) ==
    IF \E i \in DOMAIN s : s[i] = v
    THEN (CHOOSE i \in DOMAIN s : s[i] = v /\ \A j \in 1..(i-1) : s[j] # v) - 1
    ELSE -1

(***************************************************************************)
(* QRect / QSize / QModelIndex.                                            *)
(***************************************************************************)
Rect(x, y, w, h) == [x |-> x, y |-> y, w |-> w, h |-> h]

\* QRect::contains(QPoint): x2 = x + w - 1, y2 = y + h - 1
RectContains(r, px, py) ==
    LET x1 == r.x
        x2 == r.x + r.w - 1
        y1 == r.y
        y2 == r.y + r.h - 1
        l  == IF x2 < x1 - 1 THEN x2 ELSE x1
        rr == IF x2 < x1 - 1 THEN x1 ELSE x2
        t  == IF y2 < y1 - 1 THEN y2 ELSE y1
        b  == IF y2 < y1 - 1 THEN y1 ELSE y2
    IN ~(px < l \/ px > rr) /\ ~(py < t \/ py > b)

\* QRect::isEmpty
RectIsEmpty(r) == r.w <= 0 \/ r.h <= 0

\* the QModelIndex of (row, column); Invalid is QModelIndex()
Invalid == [row |-> -1, column |-> -1, valid |-> FALSE]

\* WangId: a colour per position; the default-constructed id is all zero
ZeroWangId == [i \in 0..(NumIndexes - 1) |-> 0]

\* WangId::INDEX_MASK: all bits of one position
INDEX_MASK == 255

\* qRound(qreal(n) / d) for d > 0: halves round away from zero
qRoundDiv(n, d) ==
    IF n >= 0 THEN (2 * n + d) \div (2 * d)
    ELSE -((2 * (-n) + d) \div (2 * d))

(***************************************************************************)
(* IEEE single precision, as splitSpan's float locals need it.  A float in *)
(* [0, 1] is held as the integer value * 2^27: every quotient a/b with     *)
(* 0 <= a < b <= 16 and every 1.0f - a/b is a multiple of 2^-27.           *)
(***************************************************************************)
FloatOne == 2^27

\* n / d rounded to the nearest integer, halves to even
RoundDivEven(n, d) ==
    LET q == n \div d
        r == n % d
    IN IF 2 * r < d THEN q
       ELSE IF 2 * r > d THEN q + 1
       ELSE IF q % 2 = 0 THEN q ELSE q + 1

\* (float)a / b for 0 <= a < b: a 24-bit significand
FloatDiv(a, b) ==
    IF a = 0 THEN 0
    ELSE LET p == CHOOSE k \in 0..3 : a * 2^k < b /\ a * 2^(k+1) >= b
         IN RoundDivEven(a * 2^(p + 24), b) * 2^(3 - p)

\* 1.0f - x: the exact difference rounded to a 24-bit significand
FloatOneMinus(x) ==
    LET d == FloatOne - x
        ulp == IF d >= 2^26 THEN 8
               ELSE IF d >= 2^25 THEN 4
               ELSE IF d >= 2^24 THEN 2
               ELSE 1
    IN RoundDivEven(d, ulp) * ulp


(***************************************************************************)
(* The tileset (collaborator).  A tile is [id, x, y, w, h, mapped]: its id,*)
(* its image rectangle, and whether the tileset's id map (findTile) points *)
(* at it.  The tile list is ordered; a tile's position in it stands for    *)
(* its Tile pointer, 0 for nullptr.                                        *)
(***************************************************************************)
Tile(id, r) ==
    [id |-> id, x |-> r.x, y |-> r.y, w |-> r.w, h |-> r.h, mapped |-> TRUE]

\* Tile::imageRect
imageRect(t) == Rect(t.x, t.y, t.w, t.h)

\* what an undo command remembers of a tile
Snapshot(t) == [id |-> t.id, x |-> t.x, y |-> t.y, w |-> t.w, h |-> t.h]

\* Tileset::generateTileId: the id of the tile anchored at grid cell (x, y)
generateTileId(x, y) == y * nativeColumns + x

\* Tileset::findTile on the tile list ts
FindTileIn(ts, id) ==
    IF \E i \in DOMAIN ts : ts[i].id = id /\ ts[i].mapped
    THEN CHOOSE i \in DOMAIN ts : ts[i].id = id /\ ts[i].mapped
    ELSE 0

findTile(id) == FindTileIn(tiles, id)

\* Tileset::removeTiles: each tile leaves the list and its id leaves the map
RemoveTilesFrom(ts, gone) ==
    LET ids  == {ts[i].id : i \in gone}
        left == SubSeqAt(ts, DOMAIN ts \ gone)
    IN [j \in DOMAIN left |->
          IF left[j].id \in ids THEN [left[j] EXCEPT !.mapped = FALSE]
          ELSE left[j]]

\* Tileset::addTiles: each tile is appended and the id map points at it
AddTilesTo(ts, new) ==
    LET ids == {new[j].id : j \in DOMAIN new}
        old == [i \in DOMAIN ts |->
                  IF ts[i].id \in ids THEN [ts[i] EXCEPT !.mapped = FALSE]
                  ELSE ts[i]]
        app == [j \in DOMAIN new |->
                  [new[j] EXCEPT !.mapped =
                      ~(\E k \in DOMAIN new : k > j /\ new[k].id = new[j].id)]]
    IN old \o app

\* Tileset::setTileImageRect
SetImageRect(ts, i, r) ==
    [ts EXCEPT ![i] = [@ EXCEPT !.x = r.x, !.y = r.y, !.w = r.w, !.h = r.h]]

\* QList::move(from, to), positions 1-based here
MoveInList(s, from, to) ==
    LET rest == SubSeqAt(s, DOMAIN s \ {from})
    IN SubSeq(rest, 1, to - 1) \o <<s[from]>> \o SubSeq(rest, to, Len(rest))

\* Tileset::relocateTiles: each tile in turn is moved to `location` (0-based)
RECURSIVE RelocateTilesIn(_, _, _)
RelocateTilesIn(ts, ids, location) ==
    IF ids = <<>> \/ location < 0 \/ location >= Len(ts) THEN ts
    ELSE LET from == FindTileIn(ts, Head(ids))
         IN RelocateTilesIn(
                IF from = 0 THEN ts ELSE MoveInList(ts, from, location + 1),
                Tail(ids), location)

\* the ids of the tiles in list order
TileIdsOf(ts) == [i \in DOMAIN ts |-> ts[i].id]

(***************************************************************************)
(* TilesetModel: the queries.                                              *)
(***************************************************************************)
\* a column count that never looks at the override
columnCountStored ==
    IF atlas THEN nativeColumns
    ELSE IF nativeColumns # 0 THEN nativeColumns
    ELSE 5

columnCount ==
    IF atlas THEN nativeColumns
    ELSE IF mColumnCountOverride > 0 THEN mColumnCountOverride
    ELSE IF nativeColumns # 0 THEN nativeColumns
    ELSE 5

\* a row count that drops the last, partly filled row
rowCountFullRows ==
    IF atlas THEN nativeRows
    ELSE LET tileCount == Len(mTileIds)
             columns   == columnCount
         IN IF columns > 0 THEN tileCount \div columns ELSE 1

rowCount ==
    IF atlas THEN nativeRows
    ELSE LET tileCount == Len(mTileIds)
             columns   == columnCount
         IN IF columns > 0
            THEN (tileCount \div columns)
                   + (IF tileCount % columns > 0 THEN 1 ELSE 0)
            ELSE 1

\* QAbstractItemModel::index: valid only inside the table
index(row, column) ==
    IF row >= 0 /\ row < rowCount /\ column >= 0 /\ column < columnCount
    THEN [row |-> row, column |-> column, valid |-> TRUE]
    ELSE Invalid

\* the valid indexes of the model
Indexes ==
    {[row |-> r, column |-> c, valid |-> TRUE] :
        r \in 0..(rowCount - 1), c \in 0..(columnCount - 1)}

\* a lookup that counts cells by the stored column count
tileAtStoredColumns(idx) ==
    IF ~idx.valid THEN 0
    ELSE IF atlas THEN findTile(generateTileId(idx.column, idx.row))
    ELSE LET tileIndex == idx.column + idx.row * nativeColumns
         IN IF tileIndex < Len(mTileIds)
            THEN findTile(mTileIds[tileIndex + 1])
            ELSE 0

tileAt(idx) ==
    IF ~idx.valid THEN 0
    ELSE IF atlas THEN findTile(generateTileId(idx.column, idx.row))
    ELSE LET tileIndex == idx.column + idx.row * columnCount
         IN IF tileIndex < Len(mTileIds)
            THEN findTile(mTileIds[tileIndex + 1])
            ELSE 0

\* tileIndex of the tile at position i of the tile list
tileIndex(i) ==
    IF atlas
    THEN index(qRoundDiv(tiles[i].y - margin, tileHeight + tileSpacing),
               qRoundDiv(tiles[i].x - margin, tileWidth + tileSpacing))
    ELSE IF columnCount <= 0 THEN Invalid
    ELSE LET at == IndexOf(mTileIds, tiles[i].id)
         IN IF at = -1 THEN index(0, -1)   \* -1 / n = 0, -1 % n = -1
            ELSE index(at \div columnCount, at % columnCount)

\* QSize(width, height) in cells
tileSpanSize(idx) ==
    IF ~atlas THEN [w |-> 1, h |-> 1]
    ELSE IF tileAt(idx) # 0
    THEN [w |-> tiles[tileAt(idx)].w \div tileWidth,
          h |-> tiles[tileAt(idx)].h \div tileHeight]
    ELSE [w |-> 1, h |-> 1]

\* whether the tile at position i is a span larger than 1x1 covering idx
SpanCovers(i, idx) ==
    LET tilePos == tileIndex(i)
        span    == tileSpanSize(tilePos)
    IN /\ ~(span.w <= 1 /\ span.h <= 1)
       /\ idx.row >= tilePos.row /\ idx.row < tilePos.row + span.h
       /\ idx.column >= tilePos.column /\ idx.column < tilePos.column + span.w

\* the first tile in list order whose span covers idx, 0 when none does
findSpanningTile(idx) ==
    IF ~atlas THEN 0
    ELSE IF \E i \in DOMAIN tiles : SpanCovers(i, idx)
    THEN CHOOSE i \in DOMAIN tiles :
            SpanCovers(i, idx) /\ \A j \in 1..(i-1) : ~SpanCovers(j, idx)
    ELSE 0

isCellCoveredBySpan(idx) ==
    IF ~atlas THEN FALSE
    ELSE IF tileAt(idx) # 0 THEN FALSE
    ELSE findSpanningTile(idx) # 0

\* QAbstractListModel::flags: the flags of an item of a flat model
defaultFlagsOf(idx) ==
    IF idx.valid
    THEN {"ItemIsSelectable", "ItemIsEnabled", "ItemNeverHasChildren"}
    ELSE {}

\* flags that treat an atlas as any other tileset
flagsOfCollection(idx) ==
    defaultFlagsOf(idx) \cup {"ItemIsDropEnabled"}
      \cup (IF idx.valid THEN {"ItemIsDragEnabled"} ELSE {})

\* flags that do not look at the relocate mode
flagsOutsideRelocate(idx) ==
    LET defaultFlags == defaultFlagsOf(idx)
    IN IF atlas
       THEN IF ~idx.valid THEN defaultFlags
            ELSE IF isCellCoveredBySpan(idx)
                 THEN defaultFlags \ {"ItemIsSelectable"}
            ELSE IF tileAt(idx) # 0 THEN defaultFlags
            ELSE defaultFlags \ {"ItemIsSelectable"}
       ELSE defaultFlags \cup {"ItemIsDropEnabled"}
              \cup (IF idx.valid THEN {"ItemIsDragEnabled"} ELSE {})

\* flags that let only a cell with a tile be dragged
flagsDragPopulated(idx) ==
    LET defaultFlags == defaultFlagsOf(idx)
    IN IF atlas
       THEN IF ~idx.valid THEN defaultFlags
            ELSE IF mRelocating THEN defaultFlags \cup {"ItemIsSelectable"}
            ELSE IF isCellCoveredBySpan(idx)
                 THEN defaultFlags \ {"ItemIsSelectable"}
            ELSE IF tileAt(idx) # 0 THEN defaultFlags
            ELSE defaultFlags \ {"ItemIsSelectable"}
       ELSE defaultFlags \cup {"ItemIsDropEnabled"}
              \cup (IF tileAt(idx) # 0 THEN {"ItemIsDragEnabled"} ELSE {})

flags(idx) ==
    LET defaultFlags == defaultFlagsOf(idx)
    IN IF atlas
       THEN IF ~idx.valid THEN defaultFlags
            ELSE IF mRelocating THEN defaultFlags \cup {"ItemIsSelectable"}
            ELSE IF isCellCoveredBySpan(idx)
                 THEN defaultFlags \ {"ItemIsSelectable"}
            ELSE IF tileAt(idx) # 0 THEN defaultFlags
            ELSE defaultFlags \ {"ItemIsSelectable"}
       ELSE defaultFlags \cup {"ItemIsDropEnabled"}
              \cup (IF idx.valid THEN {"ItemIsDragEnabled"} ELSE {})

(***************************************************************************)
(* Construction.                                                           *)
(***************************************************************************)
\* tile width, tile height, margin and spacing of the tilesets explored
Geometries ==
    { [tw |-> 3, th |-> 2, margin |-> 0, spacing |-> 0],
      [tw |-> 2, th |-> 1, margin |-> 1, spacing |-> 1] }

\* stored column counts of the collection tilesets explored
StoredColumns == {-1, 0, 2}

\* the geometries of the worked example: the above and 16-pixel tiles
ExampleGeometries ==
    Geometries \cup {[tw |-> 16, th |-> 16, margin |-> 0, spacing |-> 0]}

\* toPixelRect of splitSpan, also mergeSpan's mergeRect
toPixelRect(gridRect) ==
    Rect(margin + gridRect.x * (tileWidth + tileSpacing),
         margin + gridRect.y * (tileHeight + tileSpacing),
         gridRect.w * tileWidth,
         gridRect.h * tileHeight)

\* the cells of a grid rectangle, row by row
CellsOf(gridRect) ==
    IF RectIsEmpty(gridRect) THEN <<>>
    ELSE [k \in 1..(gridRect.w * gridRect.h) |->
             [x |-> gridRect.x + ((k - 1) % gridRect.w),
              y |-> gridRect.y + ((k - 1) \div gridRect.w)]]

NoRect == Rect(0, 0, 0, 0)

NoData == [null |-> TRUE, hasFormat |-> FALSE, bytes |-> <<>>]

\* a handler call with its arguments; the other fields are locals it sets
Call(op, args) ==
    [op |-> op, args |-> args, ret |-> FALSE, tileId |-> -1,
     base |-> [x |-> 0, y |-> 0], span |-> [w |-> 0, h |-> 0],
     edge |-> "", kept |-> NoRect, split |-> NoRect,
     data |-> NoData, action |-> "", parent |-> Invalid]

\* an entry of the undo stack
\* an undo stack on which a macro is never closed
CommandUnclosed(cmd, ts, dest) ==
    [cmd |-> IF cmd = "endMacro" THEN "beginMacro" ELSE cmd,
     tiles |-> ts, dest |-> dest]

Command(cmd, ts, dest) == [cmd |-> cmd, tiles |-> ts, dest |-> dest]

Snapshots(ts) == [i \in DOMAIN ts |-> Snapshot(ts[i])]

\* no mouse release was handled on an atlas yet
NoRelease ==
    [button |-> "", minRow |-> 0, maxRow |-> -1, minCol |-> 0, maxCol |-> -1,
     first |-> Invalid, at |-> 0]

\* the view right after construction: no terrain editing, no Wang set
ViewInit ==
    /\ mEditWangSet = FALSE
    /\ mWangSet = FALSE
    /\ mWangBehavior = "AssignWholeId"
    /\ mWangId = ZeroWangId
    /\ mWangColorIndex = 0
    /\ mHoveredIndex = Invalid
    /\ mWangIdChanged = FALSE
    /\ wangIdOfTile = <<>>
    /\ buttons = FALSE
    /\ dragChanged = FALSE
    /\ dragEditing = FALSE
    /\ mRelocateTiles = FALSE
    /\ dragDropMode = "NoDragDrop"
    /\ released = NoRelease

ModelInit ==
    /\ mColumnCountOverride = 0
    /\ mRelocating = FALSE
    /\ pushed = <<>>
    /\ lastOp = Call("init", <<>>)
    /\ ops = 0
    /\ hasModel = TRUE
    /\ ViewInit

\* an atlas of the given grid: every cell holds a 1x1 tile, or none does
InitAtlasOf(columns, rows, full, geometries) ==
    /\ atlas = TRUE
    /\ nativeColumns = columns
    /\ nativeRows = rows
    /\ \E g \in geometries :
         /\ tileWidth = g.tw
         /\ tileHeight = g.th
         /\ margin = g.margin
         /\ tileSpacing = g.spacing
         /\ tiles = [k \in 1..(IF full THEN columns * rows ELSE 0) |->
                       LET c == (k - 1) % columns
                           r == (k - 1) \div columns
                       IN Tile(r * columns + c,
                               Rect(g.margin + c * (g.tw + g.spacing),
                                    g.margin + r * (g.th + g.spacing),
                                    g.tw, g.th))]
    /\ mTileIds = [k \in 1..(IF full THEN columns * rows ELSE 0) |-> k - 1]
    /\ ModelInit

InitAtlas == InitAtlasOf(GridCols, GridRows, TRUE, Geometries)

\* a tileset that is no atlas, with tiles 0 .. n-1
InitCollection ==
    /\ atlas = FALSE
    /\ nativeColumns \in StoredColumns
    /\ nativeRows = 0
    /\ tileWidth = 2
    /\ tileHeight = 2
    /\ margin = 0
    /\ tileSpacing = 0
    /\ \E n \in 0..MaxTiles :
         /\ tiles = [k \in 1..n |-> Tile(k - 1, Rect(0, 0, 2, 2))]
         /\ mTileIds = [k \in 1..n |-> k - 1]
    /\ ModelInit

Init == InitAtlas \/ InitCollection

(***************************************************************************)
(* TilesetView::mergeSpan                                                  *)
(***************************************************************************)
\* a merge rectangle that also spans the spacing between the merged cells
mergeRectSpaced(minRow, maxRow, minCol, maxCol) ==
    Rect(margin + minCol * (tileWidth + tileSpacing),
         margin + minRow * (tileHeight + tileSpacing),
         (maxCol - minCol + 1) * (tileWidth + tileSpacing) - tileSpacing,
         (maxRow - minRow + 1) * (tileHeight + tileSpacing) - tileSpacing)

mergeRectOf(minRow, maxRow, minCol, maxCol) ==
    Rect(margin + minCol * (tileWidth + tileSpacing),
         margin + minRow * (tileHeight + tileSpacing),
         (maxCol - minCol + 1) * tileWidth,
         (maxRow - minRow + 1) * tileHeight)

\* the tiles mergeSpan removes: every tile but the target whose origin is
\* inside the merge rectangle
\* a removal that only looks at the first row of the merge rectangle
mergeTilesToRemoveFirstRow(targetTile, mergeRect) ==
    {i \in DOMAIN tiles :
        /\ i # targetTile
        /\ RectContains(Rect(mergeRect.x, mergeRect.y, mergeRect.w, tileHeight),
                        tiles[i].x, tiles[i].y)}

mergeTilesToRemove(targetTile, mergeRect) ==
    {i \in DOMAIN tiles :
        i # targetTile /\ RectContains(mergeRect, tiles[i].x, tiles[i].y)}

mergeSpan(minRow, maxRow, minCol, maxCol) ==
    LET targetTile    == tileAt(index(minRow, minCol))
        mergeRect     == mergeRectOf(minRow, maxRow, minCol, maxCol)
        tilesToRemove == mergeTilesToRemove(targetTile, mergeRect)
        removed       == SubSeqAt(tiles, tilesToRemove)
        afterRemove   == RemoveTilesFrom(tiles, tilesToRemove)
        targetAfter   == targetTile
                           - Cardinality({i \in tilesToRemove : i < targetTile})
        newTile       == Tile(generateTileId(minCol, minRow), mergeRect)
        after         == IF targetTile # 0
                         THEN SetImageRect(afterRemove, targetAfter, mergeRect)
                         ELSE AddTilesTo(afterRemove, <<newTile>>)
        macro         == tilesToRemove # {}
    IN /\ tiles' = after
       /\ mTileIds' = TileIdsOf(after)
       /\ pushed' =
            (IF macro
             THEN <<Command("beginMacro", <<>>, 0),
                    Command("RemoveTiles", Snapshots(removed), 0)>>
             ELSE <<>>)
            \o (IF targetTile # 0
                THEN <<Command("ChangeTileImageRect",
                               <<Snapshot(after[targetAfter])>>, 0)>>
                ELSE <<Command("AddTiles", <<Snapshot(newTile)>>, 0)>>)
            \o (IF macro THEN <<Command("endMacro", <<>>, 0)>> ELSE <<>>)
       /\ lastOp' = [Call("mergeSpan", <<minRow, maxRow, minCol, maxCol>>)
                       EXCEPT !.tileId = generateTileId(minCol, minRow)]
       /\ UNCHANGED <<tilesetVars, mColumnCountOverride, mRelocating>>

(***************************************************************************)
(* TilesetView::splitSpan                                                  *)
(***************************************************************************)
\* the early return: a span without cells or a click outside the span
splitRejects(span, relativeRow, relativeCol) ==
    \/ span.w <= 0 \/ span.h <= 0
    \/ relativeCol < 0 \/ relativeCol >= span.w
    \/ relativeRow < 0 \/ relativeRow >= span.h

\* a choice of edge that tries the top edge before the left one
closestEdgeTopFirst(span, relativeRow, relativeCol) ==
    LET relColRatio  == FloatDiv(relativeCol, span.w)
        relRowRatio  == FloatDiv(relativeRow, span.h)
        distToLeft   == relColRatio
        distToRight  == FloatOneMinus(relColRatio)
        distToTop    == relRowRatio
        distToBottom == FloatOneMinus(relRowRatio)
        minDist      == Min(Min(distToLeft, distToRight),
                            Min(distToTop, distToBottom))
    IN IF minDist = distToTop THEN "top"
       ELSE IF minDist = distToLeft THEN "left"
       ELSE IF minDist = distToRight THEN "right"
       ELSE "bottom"

\* the closest edge, by the float distances splitSpan computes
closestEdge(span, relativeRow, relativeCol) ==
    LET relColRatio  == FloatDiv(relativeCol, span.w)
        relRowRatio  == FloatDiv(relativeRow, span.h)
        distToLeft   == relColRatio
        distToRight  == FloatOneMinus(relColRatio)
        distToTop    == relRowRatio
        distToBottom == FloatOneMinus(relRowRatio)
        minDist      == Min(Min(distToLeft, distToRight),
                            Min(distToTop, distToBottom))
    IN IF minDist = distToLeft THEN "left"
       ELSE IF minDist = distToRight THEN "right"
       ELSE IF minDist = distToTop THEN "top"
       ELSE "bottom"

\* a kept part that starts at the clicked cell, not behind it
newSpanGridRectFromClick(edge, base, span, relativeRow, relativeCol) ==
    CASE edge = "left"   -> Rect(base.x + relativeCol, base.y,
                                 span.w - relativeCol, span.h)
      [] edge = "right"  -> Rect(base.x, base.y, relativeCol + 1, span.h)
      [] edge = "top"    -> Rect(base.x, base.y + relativeRow,
                                 span.w, span.h - relativeRow)
      [] edge = "bottom" -> Rect(base.x, base.y, span.w, relativeRow + 1)

\* newSpanGridRect: the part the span keeps
newSpanGridRectOf(edge, base, span, relativeRow, relativeCol) ==
    CASE edge = "left"   -> Rect(base.x + relativeCol + 1, base.y,
                                 span.w - relativeCol - 1, span.h)
      [] edge = "right"  -> Rect(base.x, base.y, relativeCol, span.h)
      [] edge = "top"    -> Rect(base.x, base.y + relativeRow + 1,
                                 span.w, span.h - relativeRow - 1)
      [] edge = "bottom" -> Rect(base.x, base.y, span.w, relativeRow)

\* a split-off part that is the whole span, whatever the edge
splitGridRectWholeSpan(edge, base, span, relativeRow, relativeCol) ==
    Rect(base.x, base.y, span.w, span.h)

\* splitGridRect: the part split off into single tiles
splitGridRectOf(edge, base, span, relativeRow, relativeCol) ==
    CASE edge = "left"   -> Rect(base.x, base.y, relativeCol + 1, span.h)
      [] edge = "right"  -> Rect(base.x + relativeCol, base.y,
                                 span.w - relativeCol, span.h)
      [] edge = "top"    -> Rect(base.x, base.y, span.w, relativeRow + 1)
      [] edge = "bottom" -> Rect(base.x, base.y + relativeRow,
                                 span.w, span.h - relativeRow)

\* the tiles splitSpan removes: every tile but the span tile whose origin is
\* inside newSpanRect
splitTilesToRemove(spanTile, newSpanRect) ==
    {i \in DOMAIN tiles :
        i # spanTile /\ RectContains(newSpanRect, tiles[i].x, tiles[i].y)}

\* single tiles for the split-off area but for its last cell
splitNewTilesButLast(spanTile, splitGridRect) ==
    LET cells == CellsOf(splitGridRect)
        keep  == {k \in DOMAIN cells :
                    /\ k < Len(cells)
                    /\ generateTileId(cells[k].x, cells[k].y)
                         # tiles[spanTile].id}
        made  == SubSeqAt(cells, keep)
    IN [k \in DOMAIN made |->
          Tile(generateTileId(made[k].x, made[k].y),
               toPixelRect(Rect(made[k].x, made[k].y, 1, 1)))]

\* the single tiles created for the split-off area
splitNewTiles(spanTile, splitGridRect) ==
    LET cells == CellsOf(splitGridRect)
        keep  == {k \in DOMAIN cells :
                    generateTileId(cells[k].x, cells[k].y) # tiles[spanTile].id}
        made  == SubSeqAt(cells, keep)
    IN [k \in DOMAIN made |->
          Tile(generateTileId(made[k].x, made[k].y),
               toPixelRect(Rect(made[k].x, made[k].y, 1, 1)))]

splitSpan(spanTile, relativeRow, relativeCol) ==
    LET tilePos == tileIndex(spanTile)
        base    == [x |-> tilePos.column, y |-> tilePos.row]
        span    == tileSpanSize(tilePos)
        call    == [Call("splitSpan", <<relativeRow, relativeCol>>)
                      EXCEPT !.tileId = tiles[spanTile].id, !.base = base,
                             !.span = span]
    IN IF splitRejects(span, relativeRow, relativeCol)
       THEN /\ lastOp' = call
            /\ pushed' = <<>>
            /\ UNCHANGED <<tilesetVars, tiles, mTileIds, mColumnCountOverride,
                         mRelocating>>
       ELSE
         LET edge            == closestEdge(span, relativeRow, relativeCol)
             newSpanGridRect == newSpanGridRectOf(edge, base, span,
                                                  relativeRow, relativeCol)
             splitGridRect   == splitGridRectOf(edge, base, span,
                                                relativeRow, relativeCol)
             newSpanRect     == toPixelRect(newSpanGridRect)
             splitRect       == toPixelRect(splitGridRect)
             tilesToRemove   == splitTilesToRemove(spanTile, newSpanRect)
             removed         == SubSeqAt(tiles, tilesToRemove)
             afterRemove     == RemoveTilesFrom(tiles, tilesToRemove)
             spanAfter       == spanTile
                                  - Cardinality({i \in tilesToRemove : i < spanTile})
             originSplit     == RectContains(splitRect, tiles[spanTile].x,
                                             tiles[spanTile].y)
             newSpanTileRect == Rect(tiles[spanTile].x, tiles[spanTile].y,
                                     tileWidth, tileHeight)
             newSpan         == Tile(generateTileId(newSpanGridRect.x,
                                                    newSpanGridRect.y),
                                     newSpanRect)
             addSpan         == originSplit /\ ~RectIsEmpty(newSpanGridRect)
             resized         == SetImageRect(afterRemove, spanAfter,
                                             IF originSplit THEN newSpanTileRect
                                             ELSE newSpanRect)
             withSpan        == IF addSpan THEN AddTilesTo(resized, <<newSpan>>)
                                ELSE resized
             newTiles        == splitNewTiles(spanTile, splitGridRect)
             after           == IF newTiles # <<>>
                                THEN AddTilesTo(withSpan, newTiles)
                                ELSE withSpan
         IN /\ tiles' = after
            /\ mTileIds' = TileIdsOf(after)
            /\ pushed' =
                 <<Command("beginMacro", <<>>, 0)>>
                 \o (IF tilesToRemove # {}
                     THEN <<Command("RemoveTiles", Snapshots(removed), 0)>>
                     ELSE <<>>)
                 \o <<Command("ChangeTileImageRect",
                              <<Snapshot(resized[spanAfter])>>, 0)>>
                 \o (IF addSpan
                     THEN <<Command("AddTiles", <<Snapshot(newSpan)>>, 0)>>
                     ELSE <<>>)
                 \o (IF newTiles # <<>>
                     THEN <<Command("AddTiles", Snapshots(newTiles), 0)>>
                     ELSE <<>>)
                 \o <<Command("endMacro", <<>>, 0)>>
            /\ lastOp' = [call EXCEPT !.edge = edge,
                                      !.kept = newSpanGridRect,
                                      !.split = splitGridRect]
            /\ UNCHANGED <<tilesetVars, mColumnCountOverride, mRelocating>>

(***************************************************************************)
(* TilesetModel::setColumnCountOverride                                    *)
(***************************************************************************)
setColumnCountOverride(count) ==
    /\ mColumnCountOverride' =
         (IF mColumnCountOverride = count THEN mColumnCountOverride ELSE count)
    /\ lastOp' = Call("setColumnCountOverride", <<count>>)
    /\ pushed' = <<>>
    /\ UNCHANGED <<tilesetVars, tiles, mTileIds, mRelocating>>

(***************************************************************************)
(* TilesetModel::tilesetChanged, and the removal of tiles from the tileset *)
(* that it is told about afterwards (collaborator)                         *)
(***************************************************************************)
tilesetChanged ==
    /\ mTileIds' = TileIdsOf(tiles)
    /\ lastOp' = Call("tilesetChanged", <<>>)
    /\ pushed' = <<>>
    /\ UNCHANGED <<tilesetVars, tiles, mColumnCountOverride, mRelocating>>

\* collaborator: Tileset::removeTiles, before the model hears of it
removeTiles(gone) ==
    /\ tiles' = RemoveTilesFrom(tiles, gone)
    /\ lastOp' = Call("removeTiles", <<>>)
    /\ pushed' = <<>>
    /\ UNCHANGED <<tilesetVars, mTileIds, mColumnCountOverride, mRelocating>>

(***************************************************************************)
(* TilesetModel::setRelocating, as TilesetView::setRelocateTiles calls it  *)
(***************************************************************************)
setRelocating(enabled) ==
    /\ mRelocating' = enabled
    /\ lastOp' = Call("setRelocating", <<IF enabled THEN 1 ELSE 0>>)
    /\ pushed' = <<>>
    /\ UNCHANGED <<tilesetVars, tiles, mTileIds, mColumnCountOverride>>

(***************************************************************************)
(* TilesetModel::dropMimeData.  The payload is [null, hasFormat, bytes]:   *)
(* a null QMimeData, whether it carries the tiles MIME type, and the byte  *)
(* array stored under that type.                                           *)
(***************************************************************************)
\* QDataStream << int: four bytes, most significant first
encodeInt(v) ==
    <<(v \div 2^24) % 256, (v \div 2^16) % 256, (v \div 2^8) % 256, v % 256>>

\* mimeData's byte array for a list of tile ids
RECURSIVE encodeIds(_)
encodeIds(ids) ==
    IF ids = <<>> THEN <<>> ELSE encodeInt(Head(ids)) \o encodeIds(Tail(ids))

\* QDataStream >> int on four bytes
decodeInt(b) ==
    (IF b[1] >= 128 THEN b[1] - 256 ELSE b[1]) * 2^24
      + b[2] * 2^16 + b[3] * 2^8 + b[4]

\* the ids the read loop yields: it reads an id while bytes are left and
\* stops when fewer than four remain (the stream's status is no longer Ok)
RECURSIVE decodedIds(_)
decodedIds(bytes) ==
    IF Len(bytes) = 0 THEN <<>>
    ELSE IF Len(bytes) < 4 THEN <<>>
    ELSE <<decodeInt(SubSeq(bytes, 1, 4))>>
           \o decodedIds(SubSeq(bytes, 5, Len(bytes)))

\* sourceTiles: the ids that resolve to a tile, in payload order
sourceTilesOf(data) ==
    LET ids  == decodedIds(data.bytes)
        keep == {k \in DOMAIN ids : findTile(ids[k]) # 0}
    IN SubSeqAt(ids, keep)

\* a destination that is always the end of the list
destinationIndexAtEnd(parent) == Len(mTileIds) - 1

destinationIndexOf(parent) ==
    LET destinationTile == tileAt(parent)
    IN IF destinationTile # 0
       THEN IndexOf(mTileIds, tiles[destinationTile].id)
       ELSE Len(mTileIds) - 1

dropMimeData(data, action, parent) ==
    LET call == [Call("dropMimeData", <<>>)
                   EXCEPT !.data = data, !.action = action, !.parent = parent]
    IN IF data.null \/ action # "MoveAction" \/ ~data.hasFormat
       THEN /\ lastOp' = call
            /\ pushed' = <<>>
            /\ UNCHANGED <<tilesetVars, tiles, mTileIds, mColumnCountOverride,
                         mRelocating>>
       ELSE
         LET sourceTiles      == sourceTilesOf(data)
             destinationIndex == destinationIndexOf(parent)
             after            == IF sourceTiles # <<>>
                                 THEN RelocateTilesIn(tiles, sourceTiles,
                                                      destinationIndex)
                                 ELSE tiles
         IN /\ tiles' = after
            /\ mTileIds' = IF sourceTiles # <<>> THEN TileIdsOf(after)
                           ELSE mTileIds
            /\ pushed' =
                 (IF sourceTiles # <<>>
                  THEN <<Command("RelocateTiles",
                                 [k \in DOMAIN sourceTiles |->
                                    Snapshot(tiles[findTile(sourceTiles[k])])],
                                 destinationIndex)>>
                  ELSE <<>>)
            /\ lastOp' = [call EXCEPT !.ret = TRUE]
            /\ UNCHANGED <<tilesetVars, mColumnCountOverride, mRelocating>>

(***************************************************************************)
(* The handler calls explored.                                             *)
(***************************************************************************)
\* an id that no tile of the tileset has
NoSuchId == MaxTiles + GridCols * GridRows

\* the id lists a drag may carry
PayloadLists == {<<>>, <<0>>, <<1>>, <<NoSuchId>>, <<1, 0>>, <<NoSuchId, 1>>}

\* the payloads handed to dropMimeData: what mimeData encodes, whole or cut
\* short by a byte, a payload of another MIME type, and no payload
Payloads ==
    {[null |-> FALSE, hasFormat |-> TRUE,
      bytes |-> SubSeq(encodeIds(l), 1, Len(l) * 4 - cut)] :
        l \in PayloadLists, cut \in 0..1}
    \cup {[null |-> FALSE, hasFormat |-> FALSE, bytes |-> encodeIds(<<0>>)],
          NoData}

\* the drop positions explored: the first two cells, the last cell of the
\* table and no cell
DropParents ==
    {index(0, 0), index(0, 1), index(rowCount - 1, columnCount - 1), Invalid}

\* the clicks explored on a tile: every cell of its span and one click off
\* the span on each axis
SplitClicks(spanTile) ==
    LET span == tileSpanSize(tileIndex(spanTile))
    IN {<<r, c>> : r \in 0..(span.h - 1), c \in 0..(span.w - 1)}
         \cup {<<-1, 0>>, <<0, span.w>>}

MergeSpan ==
    /\ atlas
    /\ ops < MaxOps
    /\ \E minRow \in 0..(nativeRows - 1), minCol \in 0..(nativeColumns - 1) :
         \E maxRow \in minRow..(nativeRows - 1),
            maxCol \in minCol..(nativeColumns - 1) :
              mergeSpan(minRow, maxRow, minCol, maxCol)
    /\ ops' = ops + 1
    /\ UNCHANGED <<wangVars, viewVars>>

SplitSpan ==
    /\ atlas
    /\ ops < MaxOps
    /\ \E spanTile \in DOMAIN tiles :
         \E click \in SplitClicks(spanTile) :
              splitSpan(spanTile, click[1], click[2])
    /\ ops' = ops + 1
    /\ UNCHANGED <<wangVars, viewVars>>

SetColumnCountOverride ==
    /\ ops < MaxModelOps
    /\ \E count \in 0..MaxOverride : setColumnCountOverride(count)
    /\ ops' = ops + 1
    /\ UNCHANGED <<wangVars, viewVars>>

SetRelocating ==
    /\ ops < MaxModelOps
    /\ \E enabled \in BOOLEAN : setRelocating(enabled)
    /\ ops' = ops + 1
    /\ UNCHANGED <<wangVars, viewVars>>

DropMimeData ==
    /\ ops < MaxModelOps
    /\ \E data \in Payloads, parent \in DropParents :
         \E action \in (IF data = NoData THEN {"MoveAction", "CopyAction"}
                        ELSE {"MoveAction"}) :
              dropMimeData(data, action, parent)
    /\ ops' = ops + 1
    /\ UNCHANGED <<wangVars, viewVars>>

\* an atlas tileset under merge and split
Next == MergeSpan \/ SplitSpan

Spec == InitAtlas /\ [][Next]_vars

\* the model's table and drag-and-drop, on either kind of tileset
NextModel == SetColumnCountOverride \/ SetRelocating \/ DropMimeData

SpecModel == Init /\ [][NextModel]_vars

\* one mergeSpan on a fresh atlas, then one splitSpan on the merged tile
MergeOnce ==
    /\ lastOp.op = "init"
    /\ \E minRow \in 0..(nativeRows - 1), minCol \in 0..(nativeColumns - 1) :
         \E maxRow \in minRow..(nativeRows - 1),
            maxCol \in minCol..(nativeColumns - 1) :
              mergeSpan(minRow, maxRow, minCol, maxCol)
    /\ ops' = ops + 1
    /\ UNCHANGED <<wangVars, viewVars>>

SplitMerged ==
    /\ lastOp.op = "mergeSpan"
    /\ findTile(lastOp.tileId) # 0
    /\ \E click \in SplitClicks(findTile(lastOp.tileId)) :
         splitSpan(findTile(lastOp.tileId), click[1], click[2])
    /\ ops' = ops + 1
    /\ UNCHANGED <<wangVars, viewVars>>

NextRoundTrip == MergeOnce \/ SplitMerged

SpecRoundTrip == InitAtlas /\ [][NextRoundTrip]_vars

\* a drop on a collection tileset
DropOnCollection == ~atlas /\ DropMimeData

\* merge and split on an atlas, drops on a collection: the calls that push
NextUndo == MergeSpan \/ SplitSpan \/ DropOnCollection

SpecUndo == Init /\ [][NextUndo]_vars

TilesetChanged ==
    /\ ops < MaxModelOps
    /\ tilesetChanged
    /\ ops' = ops + 1
    /\ UNCHANGED <<wangVars, viewVars>>

RemoveTiles ==
    /\ ops < MaxModelOps
    /\ \E i \in DOMAIN tiles : removeTiles({i})
    /\ ops' = ops + 1
    /\ UNCHANGED <<wangVars, viewVars>>

\* a collection tileset that loses tiles, the model being told afterwards
NextLookup == SetColumnCountOverride \/ RemoveTiles \/ TilesetChanged

SpecLookup == InitCollection /\ [][NextLookup]_vars

\* one mergeSpan, then a split of the merged tile or a change of relocate mode
NextSelect == MergeOnce \/ SplitMerged \/ SetRelocating

SpecSelect == InitAtlas /\ [][NextSelect]_vars

\* one mergeSpan on the atlas of the worked example, empty or full
InitExample ==
    \E full \in BOOLEAN :
        InitAtlasOf(ExampleCols, ExampleRows, full, ExampleGeometries)

SpecMergeRect == InitExample /\ [][MergeOnce]_vars

\* an atlas with room for a split at each of the four edges, empty or full;
\* on it one mergeSpan and then one splitSpan on the merged tile
InitSplit ==
    \E full \in BOOLEAN : InitAtlasOf(SplitCols, SplitRows, full, Geometries)

SpecSplit == InitSplit /\ [][NextRoundTrip]_vars


(***************************************************************************)
(* Properties.                                                             *)
(***************************************************************************)
\* the pixel rectangle of a cell range as the specification writes it:
\* origin on the spaced grid, size a multiple of the tile size
RangePixelRect(minRow, maxRow, minCol, maxCol) ==
    Rect(margin + minCol * (tileWidth + tileSpacing),
         margin + minRow * (tileHeight + tileSpacing),
         (maxCol - minCol + 1) * tileWidth,
         (maxRow - minRow + 1) * tileHeight)

\* whether a point lies inside a pixel rectangle of positive size
OriginInside(r, px, py) ==
    /\ r.x <= px /\ px < r.x + r.w
    /\ r.y <= py /\ py < r.y + r.h

\* the snapshots a kind of command pushed by the last call carries
PushedTilesOf(stack, cmd) ==
    UNION {Range(stack[k].tiles) :
             k \in {n \in DOMAIN stack : stack[n].cmd = cmd}}

\* C1: on an atlas, after any sequence of mergeSpan and splitSpan calls from
\* a grid of 1x1 tiles, every tile t satisfies tileAt(tileIndex(t)) == t.
C1_RoundTrip ==
    \A i \in DOMAIN tiles : tileAt(tileIndex(i)) = i

\* C2: mergeSpan over region R removes exactly the tiles, other than the one
\* anchored at R's top-left cell, whose origin lies inside R's pixel
\* rectangle, removes no other tile, and afterwards exactly one tile has R's
\* pixel rectangle as its image rectangle.
C2_MergeRemoves ==
    [][lastOp'.op = "mergeSpan" =>
        LET a         == lastOp'.args
            R         == RangePixelRect(a[1], a[2], a[3], a[4])
            target    == tileAt(index(a[1], a[3]))
            inside    == {i \in DOMAIN tiles :
                            OriginInside(R, tiles[i].x, tiles[i].y)}
            untouched == SubSeqAt(Snapshots(tiles),
                                  DOMAIN tiles \ (inside \cup {target}))
            others    == SelectSeq(Snapshots(tiles'),
                                   LAMBDA t : imageRect(t) # R)
        IN /\ others = untouched
           /\ Len(tiles') = Len(others) + 1
           /\ target # 0 =>
                \E j \in DOMAIN tiles' :
                    /\ tiles'[j].id = tiles[target].id
                    /\ imageRect(tiles'[j]) = R
           /\ PushedTilesOf(pushed', "RemoveTiles")
                = {Snapshot(tiles[i]) : i \in inside \ {target}}
    ]_vars

\* C2 witness: a merge that removed at least two tiles, resized the tile at
\* the top-left cell and left another tile alone
C2_Witness ==
    /\ lastOp.op = "mergeSpan"
    /\ \E k \in DOMAIN pushed :
         pushed[k].cmd = "RemoveTiles" /\ Len(pushed[k].tiles) >= 2
    /\ \E k \in DOMAIN pushed : pushed[k].cmd = "ChangeTileImageRect"
    /\ Len(tiles) >= 2

\* C3: the tile mergeSpan(minRow,maxRow,minCol,maxCol) produces has image
\* rectangle (margin + minCol*(tw+sp), margin + minRow*(th+sp),
\* (maxCol-minCol+1)*tw, (maxRow-minRow+1)*th), for every range and geometry.
C3_MergedRect ==
    lastOp.op = "mergeSpan" =>
        LET minRow   == lastOp.args[1]
            maxRow   == lastOp.args[2]
            minCol   == lastOp.args[3]
            maxCol   == lastOp.args[4]
            expected == Rect(margin + minCol * (tileWidth + tileSpacing),
                             margin + minRow * (tileHeight + tileSpacing),
                             (maxCol - minCol + 1) * tileWidth,
                             (maxRow - minRow + 1) * tileHeight)
            produced == PushedTilesOf(pushed, "ChangeTileImageRect")
                          \cup PushedTilesOf(pushed, "AddTiles")
        IN /\ Cardinality(produced) = 1
           /\ \A t \in produced : imageRect(t) = expected
           /\ \E i \in DOMAIN tiles :
                Snapshot(tiles[i]) \in produced /\ tileAt(tileIndex(i)) = i

\* C3 witness: mergeSpan(2,3,3,6) on 16-pixel tiles without margin or
\* spacing produced the tile (48,32,64,32)
C3_Witness ==
    /\ lastOp.op = "mergeSpan"
    /\ lastOp.args = <<2, 3, 3, 6>>
    /\ tileWidth = 16 /\ tileHeight = 16 /\ margin = 0 /\ tileSpacing = 0
    /\ \E i \in DOMAIN tiles : imageRect(tiles[i]) = Rect(48, 32, 64, 32)

\* a splitSpan call that got past its early return
SplitDone == lastOp.op = "splitSpan" /\ pushed # <<>>

\* the cells of a grid rectangle, as a set
CellSet(gridRect) ==
    {[x |-> cx, y |-> cy] :
        cx \in gridRect.x..(gridRect.x + gridRect.w - 1),
        cy \in gridRect.y..(gridRect.y + gridRect.h - 1)}

\* the cell is anchored by a 1x1 tile at the cell's own position
AnchoredSingle(cell) ==
    LET t == tileAt(index(cell.y, cell.x))
    IN /\ t # 0
       /\ imageRect(tiles[t]) = RangePixelRect(cell.y, cell.y, cell.x, cell.x)

RectsOverlap(a, b) ==
    /\ a.x < b.x + b.w /\ b.x < a.x + a.w
    /\ a.y < b.y + b.h /\ b.y < a.y + a.h

\* a split at relative cell (0,0) of a tile spanning more than one row and
\* more than one column
SplitAtOrigin ==
    /\ lastOp.op = "splitSpan"
    /\ lastOp.args = <<0, 0>>
    /\ lastOp.span.w > 1 /\ lastOp.span.h > 1

\* the origin tile is left as a 1x1 tile at its position
OriginKeptSingle ==
    \E t \in PushedTilesOf(pushed, "ChangeTileImageRect") :
        /\ t.id = lastOp.tileId
        /\ imageRect(t) = RangePixelRect(lastOp.base.y, lastOp.base.y,
                                         lastOp.base.x, lastOp.base.x)
        /\ \E i \in DOMAIN tiles : Snapshot(tiles[i]) = t

\* the 1x1 tiles the last call added
NewSingles ==
    {t \in PushedTilesOf(pushed, "AddTiles") :
        t.w = tileWidth /\ t.h = tileHeight}

\* C5 as stated: splitSpan at (0,0) of a tile with span (w,h), w,h > 1, keeps
\* the origin tile as a 1x1 tile and produces w*h - 1 new 1x1 tiles, no two
\* of which overlap.
C5_AllSingles ==
    SplitAtOrigin =>
        /\ OriginKeptSingle
        /\ Cardinality(NewSingles) = lastOp.span.w * lastOp.span.h - 1
        /\ \A t, u \in NewSingles :
             t # u => ~RectsOverlap(imageRect(t), imageRect(u))

\* C5: splitSpan at (0,0) of a tile with span (w,h), w,h > 1, keeps the
\* origin tile as a 1x1 tile and adds h - 1 new 1x1 tiles, for the other
\* cells of the first column, and one new tile spanning the remaining w - 1
\* columns; no two of these tiles overlap.
C5_FirstColumnSingles ==
    SplitAtOrigin =>
        LET b     == lastOp.base
            w     == lastOp.span.w
            h     == lastOp.span.h
            added == PushedTilesOf(pushed, "AddTiles")
            kept  == PushedTilesOf(pushed, "ChangeTileImageRect")
        IN /\ OriginKeptSingle
           /\ Cardinality(NewSingles) = h - 1
           /\ {imageRect(t) : t \in NewSingles}
                = {RangePixelRect(b.y + r, b.y + r, b.x, b.x) : r \in 1..(h - 1)}
           /\ {imageRect(t) : t \in added \ NewSingles}
                = {RangePixelRect(b.y, b.y + h - 1, b.x + 1, b.x + w - 1)}
           /\ Cardinality(added) = h
           /\ \A t, u \in added \cup kept :
                t # u => ~RectsOverlap(imageRect(t), imageRect(u))
           /\ \A t \in added : \E i \in DOMAIN tiles : Snapshot(tiles[i]) = t

\* C5 witness: a split at (0,0) of a tile spanning three columns and two rows
C5_Witness ==
    /\ SplitAtOrigin
    /\ lastOp.span = [w |-> 3, h |-> 2]
    /\ Cardinality(NewSingles) = 1
    /\ Cardinality(PushedTilesOf(pushed, "AddTiles")) = 2

\* the grid cell of a tile's origin and the cells its image rectangle spans
OriginCell(i) ==
    [x |-> (tiles[i].x - margin) \div (tileWidth + tileSpacing),
     y |-> (tiles[i].y - margin) \div (tileHeight + tileSpacing)]

CoveredCells(i) ==
    CellSet(Rect(OriginCell(i).x, OriginCell(i).y,
                 tiles[i].w \div tileWidth, tiles[i].h \div tileHeight))

\* C6: on an atlas, in every state reached by mergeSpan and splitSpan from
\* 1x1 tiles, tileAt returns no tile at any cell a non-1x1 span covers other
\* than its origin cell, and no cell is covered by the spans of two tiles.
C6_OriginOnly ==
    /\ \A i \in DOMAIN tiles :
         Cardinality(CoveredCells(i)) > 1 =>
            \A cell \in CoveredCells(i) \ {OriginCell(i)} :
                tileAt(index(cell.y, cell.x)) = 0
    /\ \A i, j \in DOMAIN tiles :
         i # j => CoveredCells(i) \cap CoveredCells(j) = {}

\* C7: for a collection tileset with N cached tile ids and column count
\* c > 0, rowCount() is ceil(N / c), ceil(N / 5) when c is 5; rowCount() is 1
\* when the column count is not positive.
C7_RowCountCeil ==
    ~atlas =>
        LET N == Len(mTileIds)
            c == columnCount
        IN /\ c > 0 => /\ rowCount * c >= N
                       /\ (rowCount - 1) * c < N
           /\ c = 5 => rowCount = (N + 4) \div 5
           /\ c <= 0 => rowCount = 1

\* C7 witness: seven tiles in five columns make two rows
C7_Witness ==
    /\ ~atlas
    /\ lastOp.op = "setColumnCountOverride"
    /\ columnCount = 5
    /\ Len(mTileIds) = 7
    /\ rowCount = 2

\* C8: for a collection tileset columnCount() is the override when that is
\* positive, else the stored column count when that is not zero, else 5, so
\* ten tiles with override 3 give 3 columns and 4 rows; for an atlas
\* columnCount() and rowCount() are the native counts whatever the override.
C8_ColumnCount ==
    /\ lastOp.op = "setColumnCountOverride" =>
          mColumnCountOverride = lastOp.args[1]
    /\ ~atlas =>
          /\ mColumnCountOverride > 0 => columnCount = mColumnCountOverride
          /\ mColumnCountOverride <= 0 /\ nativeColumns # 0 =>
                columnCount = nativeColumns
          /\ mColumnCountOverride <= 0 /\ nativeColumns = 0 => columnCount = 5
          /\ Len(mTileIds) = 10 /\ mColumnCountOverride = 3 =>
                columnCount = 3 /\ rowCount = 4
    /\ atlas => columnCount = nativeColumns /\ rowCount = nativeRows

\* C8 witness: ten tiles after the override was set to 3
C8_Witness ==
    /\ ~atlas
    /\ lastOp.op = "setColumnCountOverride"
    /\ lastOp.args = <<3>>
    /\ Len(mTileIds) = 10
    /\ columnCount = 3
    /\ rowCount = 4

\* the ids a payload of the tiles MIME type carries: its whole groups of four
\* bytes, most significant byte first
PayloadIds(data) ==
    IF data.null \/ ~data.hasFormat THEN <<>>
    ELSE [k \in 1..(Len(data.bytes) \div 4) |->
            data.bytes[4 * k - 3] * 2^24 + data.bytes[4 * k - 2] * 2^16
              + data.bytes[4 * k - 1] * 2^8 + data.bytes[4 * k]]

\* C9: dropMimeData with a Move action on a collection tileset pushes exactly
\* one RelocateTiles command when a payload id resolves to a tile, carrying
\* the resolved tiles in payload order, and none otherwise; its destination
\* is the position in the ordered id list of the tile under the drop point,
\* or the end of the list when no tile is under it; a single dropped tile
\* ends up at that position.
C9_DropRelocates ==
    [][(lastOp'.op = "dropMimeData" /\ lastOp'.action = "MoveAction" /\ ~atlas) =>
        LET ids      == PayloadIds(lastOp'.data)
            resolved == SelectSeq(ids, LAMBDA id :
                            \E i \in DOMAIN tiles : tiles[i].id = id)
            parent   == lastOp'.parent
            under    == parent.row * columnCount + parent.column
            dest     == IF parent.valid /\ under < Len(mTileIds)
                        THEN under
                        ELSE Len(mTileIds) - 1
        IN /\ resolved = <<>> => pushed' = <<>> /\ mTileIds' = mTileIds
           /\ resolved # <<>> =>
                /\ Len(pushed') = 1
                /\ pushed'[1].cmd = "RelocateTiles"
                /\ [k \in DOMAIN pushed'[1].tiles |-> pushed'[1].tiles[k].id]
                     = resolved
                /\ pushed'[1].dest = dest
                /\ Len(resolved) = 1 => mTileIds'[dest + 1] = resolved[1]
                /\ Range(mTileIds') = Range(mTileIds)
                /\ Len(mTileIds') = Len(mTileIds)
    ]_vars

\* C9 witness: two tiles dropped on a cell that is not the last of the list
C9_Witness ==
    /\ ~atlas
    /\ lastOp.op = "dropMimeData"
    /\ lastOp.parent.valid
    /\ Len(pushed) = 1
    /\ pushed[1].cmd = "RelocateTiles"
    /\ Len(pushed[1].tiles) = 2
    /\ pushed[1].dest < Len(mTileIds) - 1

\* C10 as stated: for an atlas tileset no call pushes a RelocateTiles command.
C10_NoRelocateOnAtlas ==
    atlas => \A k \in DOMAIN pushed : pushed[k].cmd # "RelocateTiles"

\* C10: for an atlas tileset flags() reports no cell, and not the root
\* either, as drag-enabled or drop-enabled, in relocate mode or out of it,
\* so that no drag-and-drop is delivered to it; for a collection tileset
\* every index is drop-enabled and every cell drag-enabled.
C10_AtlasNeverDragDrop ==
    \A idx \in Indexes \cup {Invalid} :
        /\ atlas =>
             flags(idx) \cap {"ItemIsDragEnabled", "ItemIsDropEnabled"} = {}
        /\ ~atlas =>
             /\ "ItemIsDropEnabled" \in flags(idx)
             /\ idx.valid => "ItemIsDragEnabled" \in flags(idx)

\* C10 witness: an atlas in relocate mode whose first cell is selectable and
\* neither drag- nor drop-enabled
C10_Witness ==
    /\ atlas
    /\ mRelocating
    /\ lastOp.op = "setRelocating"
    /\ flags(index(0, 0))
         = {"ItemIsSelectable", "ItemIsEnabled", "ItemNeverHasChildren"}

\* a payload dropMimeData is to reject: no data, an action other than Move,
\* no data of the tiles MIME type, or an id stream that ends inside an id
MalformedDrop ==
    \/ lastOp.data.null
    \/ lastOp.action # "MoveAction"
    \/ ~lastOp.data.hasFormat
    \/ Len(lastOp.data.bytes) % 4 # 0

\* C11: dropMimeData given a malformed payload (null data, an action other
\* than Move, a payload without the tiles MIME format, or a truncated id
\* stream) returns false and pushes no command.
C11_MalformedRejected ==
    (lastOp.op = "dropMimeData" /\ MalformedDrop) =>
        /\ lastOp.ret = FALSE
        /\ pushed = <<>>

\* C12: for an atlas tileset, flags(cell) of a valid cell includes the
\* selectable flag if and only if relocate mode is active or tileAt(cell) is
\* a tile; outside relocate mode a cell covered by another tile's span and
\* an empty cell are not selectable.
C12_AtlasSelectable ==
    atlas =>
        \A idx \in Indexes :
            /\ "ItemIsSelectable" \in flags(idx)
                 <=> (mRelocating \/ tileAt(idx) # 0)
            /\ (~mRelocating /\ isCellCoveredBySpan(idx)) =>
                 "ItemIsSelectable" \notin flags(idx)
            /\ {"ItemIsEnabled", "ItemNeverHasChildren"} \subseteq flags(idx)

\* C12 witness: outside relocate mode, after a split, a cell covered by a
\* span is not selectable and a cell with a tile is
C12_Witness ==
    /\ atlas
    /\ ~mRelocating
    /\ lastOp.op = "splitSpan"
    /\ \E idx \in Indexes :
         isCellCoveredBySpan(idx) /\ "ItemIsSelectable" \notin flags(idx)
    /\ \E idx \in Indexes :
         tileAt(idx) # 0 /\ "ItemIsSelectable" \in flags(idx)

\* C13 as stated: for a collection tileset flags(cell) includes drop-enabled
\* always and drag-enabled only when tileAt(cell) is a tile.
C13_DragOnlyPopulated ==
    ~atlas =>
        \A idx \in Indexes :
            /\ "ItemIsDropEnabled" \in flags(idx)
            /\ "ItemIsDragEnabled" \in flags(idx) => tileAt(idx) # 0

\* C13: for a collection tileset flags(index) includes drop-enabled always,
\* the root included, and drag-enabled for every valid cell, whether it
\* holds a tile or not.
C13_DragEveryCell ==
    ~atlas =>
        \A idx \in Indexes \cup {Invalid} :
            /\ "ItemIsDropEnabled" \in flags(idx)
            /\ "ItemIsDragEnabled" \in flags(idx) <=> idx.valid

\* C13 witness: a valid cell past the last tile of the final row is
\* drag-enabled
C13_Witness ==
    /\ ~atlas
    /\ lastOp.op = "dropMimeData"
    /\ Len(mTileIds) > 0
    /\ \E idx \in Indexes :
         /\ idx.row = rowCount - 1
         /\ tileAt(idx) = 0
         /\ "ItemIsDragEnabled" \in flags(idx)

\* the indexes handed to tileAt: the cells of the table, the cells of one
\* more row (indexes that outlived a reset) and the invalid index
LookupIndexes ==
    Indexes \cup {Invalid}
      \cup {[row |-> rowCount, column |-> c, valid |-> TRUE] :
              c \in 0..(columnCount - 1)}

\* C14: for a collection tileset tileAt(row,col) returns the tile whose id
\* is at linear position col + row*columnCount() of the ordered id list, and
\* no tile when the index is invalid, the position is at or beyond the end
\* of the list, or the id no longer resolves to a tile of the tileset.
C14_CollectionLookup ==
    ~atlas =>
        \A idx \in LookupIndexes :
            LET pos == idx.column + idx.row * columnCount
            IN IF /\ idx.valid
                  /\ pos < Len(mTileIds)
                  /\ \E i \in DOMAIN tiles : tiles[i].id = mTileIds[pos + 1]
               THEN /\ tileAt(idx) \in DOMAIN tiles
                    /\ tiles[tileAt(idx)].id = mTileIds[pos + 1]
               ELSE tileAt(idx) = 0

\* C14 witness: the tileset lost a tile the id list still names, so that one
\* cell of the table resolves to no tile while another still does
C14_Witness ==
    /\ ~atlas
    /\ lastOp.op = "removeTiles"
    /\ mColumnCountOverride > 0
    /\ \E idx \in Indexes :
         /\ idx.column + idx.row * columnCount < Len(mTileIds)
         /\ tileAt(idx) = 0
    /\ \E idx \in Indexes : idx.row > 0 /\ tileAt(idx) # 0

\* a degenerate input of splitSpan: a 1x1 span, or a relative row or column
\* outside the span
DegenerateSplit ==
    /\ lastOp.op = "splitSpan"
    /\ \/ lastOp.span = [w |-> 1, h |-> 1]
       \/ lastOp.args[1] < 0 \/ lastOp.args[1] >= lastOp.span.h
       \/ lastOp.args[2] < 0 \/ lastOp.args[2] >= lastOp.span.w

\* C15: splitSpan given a degenerate input, a 1x1 span or a relative row or
\* column outside the span's bounds, pushes nothing on the undo stack, no
\* command and no macro.
C15_DegenerateNoOp ==
    DegenerateSplit => pushed = <<>>

\* the macro nesting depth after the first k entries of what a call pushed
MacroDepth(k) ==
    Cardinality({n \in 1..k : pushed[n].cmd = "beginMacro"})
      - Cardinality({n \in 1..k : pushed[n].cmd = "endMacro"})

\* the entries pushed outside any macro: single commands and macro openings
TopLevelEntries ==
    {k \in DOMAIN pushed :
        pushed[k].cmd # "endMacro" /\ MacroDepth(k - 1) = 0}

\* C16: each mergeSpan, splitSpan and drop-relocate call that pushes
\* anything adds exactly one top-level entry to the undo stack, a single
\* command or one closed macro holding all its removals, resizes and
\* additions, and leaves the macro nesting depth at 0.
C16_OneUndoEntry ==
    (lastOp.op \in {"mergeSpan", "splitSpan", "dropMimeData"}
       /\ pushed # <<>>) =>
        /\ Cardinality(TopLevelEntries) = 1
        /\ \A k \in DOMAIN pushed : MacroDepth(k) \in {0, 1}
        /\ MacroDepth(Len(pushed)) = 0
        /\ pushed[1].cmd = "beginMacro" =>
             /\ pushed[Len(pushed)].cmd = "endMacro"
             /\ Len(pushed) >= 3
        /\ pushed[1].cmd # "beginMacro" => Len(pushed) = 1

\* C16 witness: a split that pushed a removal, a resize and two additions in
\* one macro
C16_Witness ==
    /\ lastOp.op = "splitSpan"
    /\ Len(pushed) = 6
    /\ pushed[1].cmd = "beginMacro"
    /\ pushed[2].cmd = "RemoveTiles"
    /\ pushed[6].cmd = "endMacro"

\* a split, with an in-bounds click, of a span larger than 1x1
SplitOfSpan ==
    /\ SplitDone
    /\ lastOp.span.w * lastOp.span.h > 1

\* the pixel rectangle of the kept part of the last split
KeptPixelRect ==
    RangePixelRect(lastOp.kept.y, lastOp.kept.y + lastOp.kept.h - 1,
                   lastOp.kept.x, lastOp.kept.x + lastOp.kept.w - 1)

\* the kept part is the part of the span on the far side of the chosen edge
KeptIsFarSide ==
    LET b == lastOp.base
        w == lastOp.span.w
        h == lastOp.span.h
        r == lastOp.args[1]
        c == lastOp.args[2]
    IN /\ lastOp.edge = "left" =>
            lastOp.kept = Rect(b.x + c + 1, b.y, w - c - 1, h)
       /\ lastOp.edge = "right" => lastOp.kept = Rect(b.x, b.y, c, h)
       /\ lastOp.edge = "top" =>
            lastOp.kept = Rect(b.x, b.y + r + 1, w, h - r - 1)
       /\ lastOp.edge = "bottom" => lastOp.kept = Rect(b.x, b.y, w, r)
       /\ lastOp.edge \in {"left", "right", "top", "bottom"}

\* C17 as stated: after splitSpan on a span larger than 1x1 with an
\* in-bounds click, the original spanning tile's image rectangle is the kept
\* sub-rectangle, for each of the four edge choices.
C17_OriginalShrinksToKept ==
    SplitOfSpan =>
        /\ KeptIsFarSide
        /\ \A t \in PushedTilesOf(pushed, "ChangeTileImageRect") :
             t.id = lastOp.tileId /\ imageRect(t) = KeptPixelRect

\* C17: after splitSpan on a span larger than 1x1 with an in-bounds click,
\* the kept sub-rectangle is the part of the span on the far side of the
\* chosen edge.  For the right and bottom edges the original spanning tile's
\* image rectangle becomes the kept sub-rectangle.  For the left and top
\* edges the original tile becomes a 1x1 tile at its origin and, when the
\* kept sub-rectangle is not empty, a new tile with the id of its top-left
\* cell gets the kept sub-rectangle as image rectangle.
C17_KeptRect ==
    SplitOfSpan =>
        LET changed == PushedTilesOf(pushed, "ChangeTileImageRect")
            added   == PushedTilesOf(pushed, "AddTiles")
            b       == lastOp.base
        IN /\ KeptIsFarSide
           /\ Cardinality(changed) = 1
           /\ \A t \in changed :
                /\ t.id = lastOp.tileId
                /\ \E i \in DOMAIN tiles : Snapshot(tiles[i]) = t
                /\ lastOp.edge \in {"right", "bottom"} =>
                     /\ imageRect(t) = KeptPixelRect
                     /\ lastOp.kept.w * lastOp.kept.h > 0
                /\ lastOp.edge \in {"left", "top"} =>
                     imageRect(t) = RangePixelRect(b.y, b.y, b.x, b.x)
           /\ (lastOp.edge \in {"left", "top"}
                 /\ lastOp.kept.w * lastOp.kept.h > 0) =>
                \E t \in added :
                    /\ imageRect(t) = KeptPixelRect
                    /\ t.id = generateTileId(lastOp.kept.x, lastOp.kept.y)
                    /\ \E i \in DOMAIN tiles : Snapshot(tiles[i]) = t

\* C17 witness: a split at the top edge that kept the two lower rows of a
\* span, the original tile being left as a 1x1 tile
C17_Witness ==
    /\ SplitOfSpan
    /\ lastOp.edge = "top"
    /\ lastOp.span = [w |-> 2, h |-> 3]
    /\ lastOp.kept.h = 2
    /\ \E t \in PushedTilesOf(pushed, "ChangeTileImageRect") :
         t.w = tileWidth /\ t.h = tileHeight

\* the tiles whose origin is the pixel origin of a cell
TilesAnchoredAt(cell) ==
    {i \in DOMAIN tiles :
        /\ tiles[i].x = margin + cell.x * (tileWidth + tileSpacing)
        /\ tiles[i].y = margin + cell.y * (tileHeight + tileSpacing)}

\* C18: splitSpan removes the tiles, other than the span tile, whose origin
\* lies inside the split-off rectangle before it creates the 1x1 tiles of
\* that rectangle, so that afterwards each split-off cell is anchored by
\* exactly one 1x1 tile and no two tiles share an id.
C18_SplitOffReplaced ==
    SplitDone =>
        /\ \A cell \in CellSet(lastOp.split) :
             /\ Cardinality(TilesAnchoredAt(cell)) = 1
             /\ \A i \in TilesAnchoredAt(cell) :
                  tiles[i].w = tileWidth /\ tiles[i].h = tileHeight
        /\ \A i, j \in DOMAIN tiles : i # j => tiles[i].id # tiles[j].id

\* the edge with the smallest of the distances relCol/w, 1 - relCol/w,
\* relRow/h and 1 - relRow/h, compared as exact fractions over w*h, the
\* first of left, right, top, bottom on a tie
ExactClosestEdge(span, relativeRow, relativeCol) ==
    LET left   == relativeCol * span.h
        right  == (span.w - relativeCol) * span.h
        top    == relativeRow * span.w
        bottom == (span.h - relativeRow) * span.w
    IN IF left <= right /\ left <= top /\ left <= bottom THEN "left"
       ELSE IF right <= top /\ right <= bottom THEN "right"
       ELSE IF top <= bottom THEN "top"
       ELSE "bottom"

\* C19: for a span (w,h) and an in-bounds relative cell, splitSpan splits at
\* the edge with the smallest normalized distance among left = relCol/w,
\* right = 1 - relCol/w, top = relRow/h and bottom = 1 - relRow/h, and on
\* ties picks the first in the order left, right, top, bottom.
C19_ClosestEdge ==
    SplitDone =>
        lastOp.edge = ExactClosestEdge(lastOp.span, lastOp.args[1],
                                       lastOp.args[2])

(***************************************************************************)
(* TilesetView: terrain editing (setEditWangSet .. finishWangIdChange)      *)
(***************************************************************************)
\* number of tiles of the collection whose terrain is edited
WangTiles == 1

WangColors == 0..MaxWangColor

\* the WangIds handed to setWangId
WangIds == [0..(NumIndexes - 1) -> WangColors]

\* WangSet::wangIdOfTile: the id assigned to the tile, the zero id if none
wangIdOf(tileId) ==
    IF tileId \in DOMAIN wangIdOfTile THEN wangIdOfTile[tileId]
    ELSE ZeroWangId

\* ChangeTileWangId::redo: the Wang set maps the tile to the new id
setTileWangId(tileId, wangId) ==
    [i \in DOMAIN wangIdOfTile \cup {tileId} |->
        IF i = tileId THEN wangId ELSE wangIdOfTile[i]]

\* new ChangeTileWangId(document, wangSet, tile, newWangId): the command
\* keeps the id the tile has in the Wang set and the id it is given
ChangeTileWangId(tileId, wangId) ==
    [cmd |-> "ChangeTileWangId", flush |-> FALSE, tile |-> tileId,
     from |-> wangIdOf(tileId), wangId |-> wangId]

\* new ChangeTileWangId: the default-constructed command that ends a merge
ChangeTileWangIdFlush ==
    [cmd |-> "ChangeTileWangId", flush |-> TRUE, tile |-> -1,
     from |-> ZeroWangId, wangId |-> ZeroWangId]

\* the id applyWangId computes for a tile from its previous id
newWangIdOf(previousWangId, wangId) ==
    IF mWangBehavior = "AssignWholeId" THEN wangId
    ELSE [i \in 0..(NumIndexes - 1) |->
            IF wangId[i] # 0 THEN mWangColorIndex ELSE previousWangId[i]]

\* TilesetView::applyWangId, called when mHoveredIndex is hovered and mWangId
\* is wangId
applyWangId(hovered, wangId) ==
    LET tile           == tileAt(hovered)
        previousWangId == wangIdOf(tiles[tile].id)
        newWangId      == newWangIdOf(previousWangId, wangId)
    IN IF ~hovered.valid \/ ~mWangSet
       THEN /\ pushed' = <<>>
            /\ UNCHANGED <<wangIdOfTile, mWangIdChanged>>
       ELSE IF tile = 0
       THEN /\ pushed' = <<>>
            /\ UNCHANGED <<wangIdOfTile, mWangIdChanged>>
       ELSE IF newWangId = previousWangId
       THEN /\ pushed' = <<>>
            /\ UNCHANGED <<wangIdOfTile, mWangIdChanged>>
       ELSE /\ pushed' = <<ChangeTileWangId(tiles[tile].id, newWangId)>>
            /\ wangIdOfTile' = setTileWangId(tiles[tile].id, newWangId)
            /\ mWangIdChanged' = TRUE

\* TilesetView::finishWangIdChange
finishWangIdChange ==
    IF ~mWangIdChanged
    THEN /\ pushed' = <<>>
         /\ UNCHANGED mWangIdChanged
    ELSE /\ pushed' = <<ChangeTileWangIdFlush>>
         /\ mWangIdChanged' = FALSE

modelVars == <<tilesetVars, tiles, mTileIds, mColumnCountOverride,
               mRelocating, ops, viewVars>>

\* TilesetView::setEditWangSet
setEditWangSet(enabled) ==
    /\ lastOp' = Call("setEditWangSet", <<enabled>>)
    /\ pushed' = <<>>
    /\ IF mEditWangSet = enabled
       THEN UNCHANGED mEditWangSet
       ELSE mEditWangSet' = enabled
    /\ dragEditing' = (dragEditing /\ enabled)
    /\ UNCHANGED <<modelVars, mWangSet, mWangBehavior, mWangId,
                   mWangColorIndex, mHoveredIndex, mWangIdChanged,
                   wangIdOfTile, buttons, dragChanged>>

\* TilesetView::setWangSet: wangSet is the Wang set of the tileset or null
setWangSet(wangSet) ==
    /\ lastOp' = Call("setWangSet", <<wangSet>>)
    /\ pushed' = <<>>
    /\ IF mWangSet = wangSet
       THEN UNCHANGED mWangSet
       ELSE mWangSet' = wangSet
    /\ UNCHANGED <<modelVars, mEditWangSet, mWangBehavior, mWangId,
                   mWangColorIndex, mHoveredIndex, mWangIdChanged,
                   wangIdOfTile, buttons, dragChanged, dragEditing>>

\* TilesetView::setWangId
setWangId(wangId) ==
    /\ lastOp' = Call("setWangId", <<wangId>>)
    /\ pushed' = <<>>
    /\ mWangId' = wangId
    /\ mWangBehavior' = "AssignWholeId"
    /\ UNCHANGED <<modelVars, mEditWangSet, mWangSet, mWangColorIndex,
                   mHoveredIndex, mWangIdChanged, wangIdOfTile, buttons,
                   dragChanged, dragEditing>>

\* TilesetView::setWangColor
setWangColor(color) ==
    /\ lastOp' = Call("setWangColor", <<color>>)
    /\ pushed' = <<>>
    /\ mWangColorIndex' = color
    /\ mWangBehavior' = "AssignHoveredIndex"
    /\ UNCHANGED <<modelVars, mEditWangSet, mWangSet, mWangId, mHoveredIndex,
                   mWangIdChanged, wangIdOfTile, buttons, dragChanged,
                   dragEditing>>

\* TilesetView::mousePressEvent; outside terrain editing the press goes to
\* QTableView
mousePressEvent(button) ==
    /\ lastOp' = Call("mousePressEvent", <<button>>)
    /\ IF mEditWangSet /\ button = "LeftButton"
       THEN applyWangId(mHoveredIndex, mWangId)
       ELSE /\ pushed' = <<>>
            /\ UNCHANGED <<wangIdOfTile, mWangIdChanged>>
    /\ buttons' = (buttons \/ button = "LeftButton")
    /\ dragChanged' = IF button = "LeftButton" THEN pushed' # <<>>
                      ELSE dragChanged
    /\ dragEditing' = IF button = "LeftButton" THEN mEditWangSet
                      ELSE dragEditing
    /\ UNCHANGED <<modelVars, mEditWangSet, mWangSet, mWangBehavior, mWangId,
                   mWangColorIndex, mHoveredIndex>>

\* the WangId mouseMoveEvent builds from the third of the tile under the
\* mouse; gridIndex = NumIndexes is the dead zone at the centre
hoverWangId(gridIndex) ==
    IF gridIndex = NumIndexes THEN ZeroWangId
    ELSE [ZeroWangId EXCEPT ![gridIndex] =
            IF mWangColorIndex # 0 THEN mWangColorIndex ELSE INDEX_MASK]

\* TilesetView::mouseMoveEvent: hoveredIndex is indexAt(pos) and gridIndex
\* the position of the WangId the mouse is over; outside terrain editing the
\* move goes to QTableView
mouseMoveEvent(hoveredIndex, gridIndex) ==
    /\ lastOp' = Call("mouseMoveEvent", <<hoveredIndex, gridIndex>>)
    /\ IF mEditWangSet /\ mWangSet
       THEN LET wangId == IF mWangBehavior = "AssignWholeId" THEN mWangId
                          ELSE hoverWangId(gridIndex)
            IN /\ mHoveredIndex' = hoveredIndex
               /\ mWangId' = wangId
               /\ IF buttons
                  THEN applyWangId(hoveredIndex, wangId)
                  ELSE /\ pushed' = <<>>
                       /\ UNCHANGED <<wangIdOfTile, mWangIdChanged>>
       ELSE /\ pushed' = <<>>
            /\ UNCHANGED <<mHoveredIndex, mWangId, wangIdOfTile,
                           mWangIdChanged>>
    /\ dragChanged' = (dragChanged \/ pushed' # <<>>)
    /\ UNCHANGED <<modelVars, mEditWangSet, mWangSet, mWangBehavior,
                   mWangColorIndex, buttons, dragEditing>>

\* TilesetView::mouseReleaseEvent on a tileset that is no atlas; outside
\* terrain editing the release goes to QTableView
mouseReleaseEvent(button) ==
    /\ lastOp' = Call("mouseReleaseEvent", <<button>>)
    /\ IF mEditWangSet /\ button = "LeftButton"
       THEN finishWangIdChange
       ELSE /\ pushed' = <<>>
            /\ UNCHANGED mWangIdChanged
    /\ buttons' = (buttons /\ button # "LeftButton")
    /\ UNCHANGED <<modelVars, mEditWangSet, mWangSet, mWangBehavior, mWangId,
                   mWangColorIndex, mHoveredIndex, wangIdOfTile, dragChanged,
                   dragEditing>>

\* TilesetView::leaveEvent
leaveEvent ==
    /\ lastOp' = Call("leaveEvent", <<>>)
    /\ pushed' = <<>>
    /\ mHoveredIndex' = Invalid
    /\ UNCHANGED <<modelVars, mEditWangSet, mWangSet, mWangBehavior, mWangId,
                   mWangColorIndex, mWangIdChanged, wangIdOfTile, buttons,
                   dragChanged, dragEditing>>

\* a collection of WangTiles tiles shown in a table of WangTiles + 1 columns,
\* so that the last cell of the row holds no tile
InitWang ==
    /\ atlas = FALSE
    /\ nativeColumns = WangTiles + 1
    /\ nativeRows = 0
    /\ tileWidth = 2
    /\ tileHeight = 2
    /\ margin = 0
    /\ tileSpacing = 0
    /\ tiles = [k \in 1..WangTiles |-> Tile(k - 1, Rect(0, 0, 2, 2))]
    /\ mTileIds = [k \in 1..WangTiles |-> k - 1]
    /\ ModelInit

MouseButtons == {"LeftButton", "RightButton"}

SetEditWangSet == \E enabled \in BOOLEAN : setEditWangSet(enabled)

SetWangSet == \E wangSet \in BOOLEAN : setWangSet(wangSet)

SetWangId == \E wangId \in WangIds : setWangId(wangId)

SetWangColor == \E color \in WangColors : setWangColor(color)

\* a button is pressed only while it is up
MousePressEvent ==
    \E button \in MouseButtons :
        /\ button = "LeftButton" => ~buttons
        /\ mousePressEvent(button)

MouseMoveEvent ==
    \E hoveredIndex \in Indexes \cup {Invalid} :
        \E gridIndex \in (IF mWangBehavior = "AssignWholeId"
                          THEN {NumIndexes} ELSE 0..NumIndexes) :
            mouseMoveEvent(hoveredIndex, gridIndex)

\* a button is released only while it is down
MouseReleaseEvent ==
    \E button \in MouseButtons :
        /\ button = "LeftButton" => buttons
        /\ mouseReleaseEvent(button)

LeaveEvent == leaveEvent

NextWang ==
    \/ SetEditWangSet
    \/ SetWangSet
    \/ SetWangId
    \/ SetWangColor
    \/ MousePressEvent
    \/ MouseMoveEvent
    \/ MouseReleaseEvent
    \/ LeaveEvent

SpecWang == InitWang /\ [][NextWang]_vars

\* a left-button release in terrain editing that ends a drag begun and kept
\* in terrain editing
DragReleased ==
    /\ lastOp.op = "mouseReleaseEvent"
    /\ lastOp.args = <<"LeftButton">>
    /\ mEditWangSet
    /\ dragEditing

\* C20: in terrain editing a left-button release pushes exactly one
\* terminating flush command if at least one WangId change was pushed during
\* the drag it ends, and nothing otherwise
C20_ReleaseFlushesDrag ==
    DragReleased =>
        pushed = (IF dragChanged THEN <<ChangeTileWangIdFlush>> ELSE <<>>)

(***************************************************************************)
(* TilesetView: setModel and setRelocateTiles                               *)
(***************************************************************************)
\* TilesetView::setRelocateTiles
setRelocateTiles(enabled) ==
    /\ lastOp' = Call("setRelocateTiles", <<enabled>>)
    /\ pushed' = <<>>
    /\ IF mRelocateTiles = enabled
       THEN UNCHANGED <<mRelocateTiles, mRelocating, dragDropMode>>
       ELSE /\ mRelocateTiles' = enabled
            /\ mRelocating' = IF hasModel THEN enabled ELSE mRelocating
            /\ dragDropMode' = IF enabled /\ ~(hasModel /\ atlas)
                               THEN "InternalMove"
                               ELSE "NoDragDrop"
    /\ UNCHANGED <<tilesetVars, tiles, mTileIds, mColumnCountOverride, ops,
                   hasModel, released, wangVars>>

\* the models handed to setModel: none, or a new TilesetModel of an atlas or
\* of a collection tileset
Models == {"null", "atlas", "collection"}

\* TilesetView::setModel: the view shows the given model, a new TilesetModel
\* of a tileset without tiles; count is the column count refreshColumnCount
\* hands to setColumnCountOverride when the view wraps dynamically
setModel(model, count) ==
    /\ lastOp' = Call("setModel", <<model, count>>)
    /\ pushed' = <<>>
    /\ hasModel' = (model # "null")
    /\ atlas' = (model = "atlas")
    /\ nativeColumns' = IF model = "atlas" THEN GridCols ELSE 0
    /\ nativeRows' = IF model = "atlas" THEN GridRows ELSE 0
    /\ tiles' = <<>>
    /\ mTileIds' = <<>>
    /\ mRelocating' = FALSE
    /\ mColumnCountOverride' = count
    /\ UNCHANGED <<tileWidth, tileHeight, margin, tileSpacing, ops,
                   mRelocateTiles, dragDropMode, released, wangVars>>

\* a view right after construction: it has no model yet
InitView ==
    /\ atlas = FALSE
    /\ nativeColumns = 0
    /\ nativeRows = 0
    /\ tileWidth = 2
    /\ tileHeight = 2
    /\ margin = 0
    /\ tileSpacing = 0
    /\ tiles = <<>>
    /\ mTileIds = <<>>
    /\ mColumnCountOverride = 0
    /\ mRelocating = FALSE
    /\ pushed = <<>>
    /\ lastOp = Call("init", <<>>)
    /\ ops = 0
    /\ hasModel = FALSE
    /\ ViewInit

SetRelocateTiles == \E enabled \in BOOLEAN : setRelocateTiles(enabled)

SetModel ==
    \E model \in Models :
        \E count \in (IF model = "collection" THEN 0..MaxOverride ELSE {0}) :
            setModel(model, count)

NextView == SetModel \/ SetRelocateTiles \/ SetEditWangSet

SpecView == InitView /\ [][NextView]_vars

\* C21: relocate-tiles mode and terrain-edit mode are never both active,
\* whatever sequence of setRelocateTiles and setEditWangSet calls was made
C21_ModesExclusive == ~(mRelocateTiles /\ mEditWangSet)

\* C27: whenever the view has a model, the model's relocating flag equals
\* the view's relocate-tiles flag, and the drag-drop mode is InternalMove
\* exactly when relocate mode is on and the model's tileset is no atlas
C27_ModelFollowsView ==
    hasModel =>
        /\ mRelocating = mRelocateTiles
        /\ (dragDropMode = "InternalMove") = (mRelocateTiles /\ ~atlas)

(***************************************************************************)
(* TilesetView::handleAtlasMouseReleaseEvent                                *)
(***************************************************************************)
\* number of mouse releases explored on an atlas in relocate mode
MaxReleases == 2

\* the cells of rows minRow..maxRow and columns minCol..maxCol
SelectedIndexes(minRow, maxRow, minCol, maxCol) ==
    {[row |-> r, column |-> c, valid |-> TRUE] :
        r \in minRow..maxRow, c \in minCol..maxCol}

\* TilesetView::handleAtlasMouseReleaseEvent with the cells of rows
\* minRow..maxRow and columns minCol..maxCol selected (none when maxRow <
\* minRow); first is selectedIndexes.first() and (row, col) the cell of the
\* mouse position counted from the top left of first's visual rectangle
handleAtlasMouseReleaseEvent(button, minRow, maxRow, minCol, maxCol, first, row, col) ==
    LET spanTile == findSpanningTile(first)
        tile     == tileAt(first)
        after    == RemoveTilesFrom(tiles, {tile})
        call     == Call("handleAtlasMouseReleaseEvent", <<button>>)
        nothing  == /\ lastOp' = call
                    /\ pushed' = <<>>
                    /\ UNCHANGED <<tilesetVars, tiles, mTileIds,
                                   mColumnCountOverride, mRelocating>>
    IN IF SelectedIndexes(minRow, maxRow, minCol, maxCol) = {}
       THEN nothing
       ELSE IF button = "LeftButton"
       THEN mergeSpan(minRow, maxRow, minCol, maxCol)
       ELSE IF button = "RightButton"
       THEN IF spanTile # 0
            THEN splitSpan(spanTile, row, col)
            ELSE IF tile # 0
            THEN /\ lastOp' = call
                 /\ pushed' = <<Command("RemoveTiles",
                                        <<Snapshot(tiles[tile])>>, 0)>>
                 /\ tiles' = after
                 /\ mTileIds' = TileIdsOf(after)
                 /\ UNCHANGED <<tilesetVars, mColumnCountOverride,
                                mRelocating>>
            ELSE nothing
       ELSE nothing

AllButtons == MouseButtons \cup {"MiddleButton"}

\* TilesetView::mouseReleaseEvent outside terrain editing, in relocate mode
\* on an atlas: the release goes to handleAtlasMouseReleaseEvent
AtlasMouseReleaseEvent ==
    /\ ~mEditWangSet
    /\ mRelocateTiles /\ hasModel /\ atlas
    /\ ops < MaxReleases
    /\ \E button \in AllButtons :
         \E minRow \in 0..(nativeRows - 1), minCol \in 0..(nativeColumns - 1) :
           \E maxRow \in (minRow - 1)..(nativeRows - 1),
              maxCol \in minCol..(nativeColumns - 1) :
             \E first \in (IF maxRow < minRow THEN {Invalid}
                           ELSE SelectedIndexes(minRow, maxRow, minCol, maxCol)) :
               \E click \in (IF findSpanningTile(first) # 0
                                /\ button = "RightButton"
                             THEN SplitClicks(findSpanningTile(first))
                             ELSE {<<0, 0>>}) :
                 /\ handleAtlasMouseReleaseEvent(button, minRow, maxRow,
                                                 minCol, maxCol, first,
                                                 click[1], click[2])
                 /\ released' = [button |-> button, minRow |-> minRow,
                                 maxRow |-> maxRow, minCol |-> minCol,
                                 maxCol |-> maxCol, first |-> first,
                                 at |-> ops + 1]
    /\ ops' = ops + 1
    /\ UNCHANGED <<wangVars, hasModel, mRelocateTiles, dragDropMode>>

NextRelease == SetRelocateTiles \/ AtlasMouseReleaseEvent

SpecRelease == InitAtlas /\ [][NextRelease]_vars

\* the last call was a right-button release over a non-empty selection
RightReleased ==
    /\ released.button = "RightButton"
    /\ released.at = ops
    /\ released.maxRow >= released.minRow

\* the tiles that cover the cell
TilesCovering(cell) ==
    {i \in DOMAIN tiles :
        [x |-> cell.column, y |-> cell.row] \in CoveredCells(i)}

\* C22: in relocate mode on an atlas, after the right button is released
\* over a non-empty selection no tile covers any selected cell
C22_SelectionCleared ==
    RightReleased =>
        \A cell \in SelectedIndexes(released.minRow, released.maxRow,
                                    released.minCol, released.maxCol) :
            TilesCovering(cell) = {}

(***************************************************************************)
(* TilesetModel::tileChanged and tilesChanged                               *)
(***************************************************************************)
\* collaborator: Tileset::addTiles of one new tile with the next free id,
\* before the model hears of it
addTile ==
    LET nextTileId == IF tiles = <<>> THEN 0
                      ELSE 1 + CHOOSE m \in {tiles[i].id : i \in DOMAIN tiles} :
                                 \A i \in DOMAIN tiles : tiles[i].id <= m
    IN /\ tiles' = AddTilesTo(tiles, <<Tile(nextTileId, Rect(0, 0, 2, 2))>>)
       /\ lastOp' = Call("addTiles", <<nextTileId>>)
       /\ pushed' = <<>>
       /\ UNCHANGED <<tilesetVars, mTileIds, mColumnCountOverride,
                      mRelocating>>

\* Q_ASSERT(tileIndex != -1) of tileIndex fails for the tile at position i
tileIndexAssertFails(i) ==
    /\ ~atlas
    /\ columnCount > 0
    /\ IndexOf(mTileIds, tiles[i].id) = -1

\* TilesetModel::tileChanged of the tile at position i of the tile list:
\* dataChanged(i, i) is emitted for its index
tileChanged(i) ==
    /\ lastOp' = [Call("tileChanged", <<tiles[i].id>>)
                    EXCEPT !.parent = tileIndex(i)]
    /\ pushed' = <<>>
    /\ UNCHANGED <<tilesetVars, tiles, mTileIds, mColumnCountOverride,
                   mRelocating>>

\* the range tilesChanged builds over the tiles at the positions of list,
\* from position k of list on
RECURSIVE changedRange(_, _, _, _)
changedRange(list, k, topLeft, bottomRight) ==
    IF k > Len(list) THEN <<topLeft, bottomRight>>
    ELSE LET i == tileIndex(list[k])
         IN IF ~topLeft.valid
            THEN changedRange(list, k + 1, i, i)
            ELSE changedRange(list, k + 1,
                    IF i.row < topLeft.row \/ i.column < topLeft.column
                    THEN index(Min(topLeft.row, i.row),
                               Min(topLeft.column, i.column))
                    ELSE topLeft,
                    IF i.row > bottomRight.row
                         \/ i.column > bottomRight.column
                    THEN index(IF bottomRight.row >= i.row
                               THEN bottomRight.row ELSE i.row,
                               IF bottomRight.column >= i.column
                               THEN bottomRight.column ELSE i.column)
                    ELSE bottomRight)

\* TilesetModel::tilesChanged of the tiles at the positions of list, which
\* are tiles of this tileset: dataChanged(topLeft, bottomRight) is emitted
\* when topLeft is valid
tilesChanged(list) ==
    LET range == changedRange(list, 1, Invalid, Invalid)
    IN /\ lastOp' = [Call("tilesChanged",
                          [k \in DOMAIN list |-> tiles[list[k]].id])
                       EXCEPT !.ret = range[1].valid,
                              !.parent = range[1]]
       /\ pushed' = <<>>
       /\ UNCHANGED <<tilesetVars, tiles, mTileIds, mColumnCountOverride,
                      mRelocating>>

AddTile ==
    /\ ops < MaxModelOps
    /\ Len(tiles) < MaxTiles
    /\ addTile
    /\ ops' = ops + 1
    /\ UNCHANGED <<wangVars, viewVars>>

TileChanged ==
    /\ ops < MaxModelOps
    /\ \E i \in DOMAIN tiles : tileChanged(i)
    /\ ops' = ops + 1
    /\ UNCHANGED <<wangVars, viewVars>>

TilesChanged ==
    /\ ops < MaxModelOps
    /\ \E i \in DOMAIN tiles, j \in DOMAIN tiles :
         tilesChanged(IF i = j THEN <<i>> ELSE <<i, j>>)
    /\ ops' = ops + 1
    /\ UNCHANGED <<wangVars, viewVars>>

NextNotify ==
    \/ AddTile
    \/ RemoveTiles
    \/ TilesetChanged
    \/ TileChanged
    \/ TilesChanged

SpecNotify == InitCollection /\ [][NextNotify]_vars

\* the last call was a change notification, which hands its tiles to
\* tileIndex
Notified == lastOp.op \in {"tileChanged", "tilesChanged"}

\* C23: for a collection tileset with a positive column count, every tile
\* a change notification hands to tileIndex has its id in mTileIds, so the
\* not-found assertion of tileIndex does not fail
C23_NotifiedTilesCached ==
    (Notified /\ ~atlas /\ columnCount > 0) =>
        \A k \in DOMAIN lastOp.args :
            \A i \in DOMAIN tiles :
                tiles[i].id = lastOp.args[k] => ~tileIndexAssertFails(i)

\* the positions at which two WangIds differ
ChangedIndexes(from, to) == {i \in 0..(NumIndexes - 1) : from[i] # to[i]}

\* C24: in assign-hovered-index mode one applyWangId call changes at most
\* one position of the hovered tile's WangId and leaves the others as they
\* were
C24_OneIndexChanged ==
    mWangBehavior = "AssignHoveredIndex" =>
        \A k \in DOMAIN pushed :
            (pushed[k].cmd = "ChangeTileWangId" /\ ~pushed[k].flush) =>
                Cardinality(ChangedIndexes(pushed[k].from,
                                           pushed[k].wangId)) <= 1

\* C25: the pending-change flag mWangIdChanged is false whenever no
\* left-button drag is in progress, so that every pushed change is flushed
\* before a later press pushes another
C25_NoPendingChangeOutsideDrag == ~buttons => ~mWangIdChanged

\* the grid cells covered by tiles, and whether no cell is covered twice
AllCovered == UNION {CoveredCells(i) : i \in DOMAIN tiles}

NonOverlapping ==
    \A i, j \in DOMAIN tiles :
        i # j => CoveredCells(i) \cap CoveredCells(j) = {}

\* a step that is a splitSpan of a span larger than 1x1 at a cell of the
\* span, taken in a state with non-overlapping tiles
SplitsLargerSpan ==
    /\ lastOp'.op = "splitSpan"
    /\ pushed' # <<>>
    /\ ~(lastOp'.span.w <= 1 /\ lastOp'.span.h <= 1)
    /\ NonOverlapping

\* C26: when splitSpan splits a span larger than 1x1 at a cell of the span
\* in a state with non-overlapping tiles, the kept and the split-off grid
\* rectangles are disjoint and together are exactly the span, and afterwards
\* the tiles cover the same grid cells as before, each cell once
C26_SplitPartitionsSpan ==
    [][SplitsLargerSpan =>
        LET keptCells  == CellSet(lastOp'.kept)
            splitCells == CellSet(lastOp'.split)
            spanCells  == CellSet(Rect(lastOp'.base.x, lastOp'.base.y,
                                       lastOp'.span.w, lastOp'.span.h))
        IN /\ keptCells \cap splitCells = {}
           /\ keptCells \cup splitCells = spanCells
           /\ AllCovered' = AllCovered
           /\ NonOverlapping']_vars

\* a 2x2 or larger span of an atlas without spacing was split into a kept
\* part and a split-off part, and every cell of the atlas is covered once
C26_Witness ==
    /\ SplitDone
    /\ tileSpacing = 0
    /\ lastOp.span.w >= 2 /\ lastOp.span.h >= 2
    /\ CellSet(lastOp.kept) # {}
    /\ CellSet(lastOp.split) # {}
    /\ NonOverlapping
    /\ Cardinality(AllCovered) = nativeColumns * nativeRows

====
